---- MODULE Spec2Model ----
(***************************************************************************)
(* Model of src/src/fun-with-redux/index.js: entity and action types built *)
(* with union-type, the unscoped patternMatchingReducder, and the          *)
(* mode-scoped reducer (AppModes.appModeOf / AppModes.prototype.reduce).   *)
(***************************************************************************)
EXTENDS Integers, Sequences, FiniteSets, TLC

VARIABLES
  state,        \* the state record the caller currently holds
  reduceWith,   \* which reducer the caller dispatches to
  call,         \* the call that has just completed (NoCall when idle)
  lastAccepted, \* the action of the last call that returned
  accepted      \* the names of the actions the mode-scoped reducer let through

vars == <<state, reduceWith, call, lastAccepted, accepted>>

(***************************************************************************)
(* JavaScript values, tagged with their runtime type.  A plain object is   *)
(* its own enumerable properties; a value built by a union-type            *)
(* constructor also carries the type it belongs to (its prototype) and the *)
(* constructor's name (_name).                                             *)
(***************************************************************************)
Undefined == [type |-> "undefined"]
Null == [type |-> "null"]
False == [type |-> "boolean", value |-> FALSE]
Str(s) == [type |-> "string", value |-> s]
Arr(items) == [type |-> "array", items |-> items]
Obj(props) == [type |-> "object", props |-> props]
Adt(group, name, props) ==
  [type |-> "adt", group |-> group, name |-> name, props |-> props]

NoProps == [k \in {} |-> Undefined]

\* own enumerable properties that Object.assign / lodash see on a value
OwnProps(v) == IF v.type \in {"object", "adt"} THEN v.props ELSE NoProps

\* obj[key]
Get(obj, key) ==
  IF key \in DOMAIN OwnProps(obj) THEN OwnProps(obj)[key] ELSE Undefined

\* JavaScript truthiness (if (mappedValue) ...)
Truthy(v) ==
  CASE v.type \in {"undefined", "null"} -> FALSE
    [] v.type = "boolean" -> v.value
    [] v.type = "string" -> v.value # ""
    [] OTHER -> TRUE

\* outcome of a call
Return(v) == [kind |-> "return", value |-> v]
Throw(e) == [kind |-> "throw", error |-> e]

(***************************************************************************)
(* Bounds                                                                  *)
(***************************************************************************)
MaxProps == 1      \* longest props array handed to InitAppOf
MaxDatasets == 2   \* longest datasets array handed to InitAppOf
MaxFields == 2     \* longest fields array handed to DatasetOf
MaxStack == 3      \* deepest nesting of appModeOf activations the stack holds

RECURSIVE SeqsUpTo(_, _)
SeqsUpTo(S, n) ==
  IF n = 0 THEN {<<>>}
  ELSE LET shorter == SeqsUpTo(S, n - 1)
       IN shorter \cup {Append(s, x) : s \in {t \in shorter : Len(t) = n - 1}, x \in S}

(***************************************************************************)
(* Helpers                                                                 *)
(***************************************************************************)
\* T.prototype.isPrototypeOf(v)
isPrototypeOf(group, v) == v.type = "adt" /\ v.group = group

\* union-type's mapping of String / Array / Object to runtime checks
isString(v) == v.type = "string"
isArray(v) == v.type = "array"
isObject(v) == v.type \in {"object", "array", "adt"}

\* const every = fn => array => array.every(fn), where fn is always
\* T.prototype.isPrototypeOf bound to T.prototype and is passed as T; a value
\* without .every makes the call throw, which a constructor reports as a
\* rejection too
every(group, array) ==
  /\ array.type = "array"
  /\ \A i \in 1..Len(array.items) : isPrototypeOf(group, array.items[i])

\* isArrayOfFields checking the shape of an element, not its prototype
isArrayOfFieldShapes(v) ==
  /\ v.type = "array"
  /\ \A i \in 1..Len(v.items) :
       isString(Get(v.items[i], "name")) /\ isString(Get(v.items[i], "type"))

isArrayOfFields(v) == every("Field", v)
isArrayOfProps(v) == every("Prop", v)
isArrayOfDatasets(v) == every("Dataset", v)

\* Object.keys(v).length; Object.keys throws on undefined and null
HasKeys(v) == v.type \notin {"undefined", "null"}
KeyCount(v) ==
  CASE v.type \in {"object", "adt"} -> Cardinality(DOMAIN v.props)
    [] v.type = "array" -> Len(v.items)
    [] v.type = "string" -> IF v.value = "" THEN 0 ELSE 1
    [] OTHER -> 0

isEmptyArray(array) == array.type = "array" /\ Len(array.items) = 0
isNonEmptyArray(array) == array.type = "array" /\ Len(array.items) > 0
isEmptyObject(obj) == HasKeys(obj) /\ KeyCount(obj) = 0
isNonEmptyObject(obj) == HasKeys(obj) /\ KeyCount(obj) > 0
\* isNonNil written as a truthiness test: a => !!a
isNonNilTruthy(a) == Truthy(a)

\* isNil as a test for a falsy value
isNilFalsy(a) == ~Truthy(a)

isNil(a) == a = Null
isNonNil(a) == a # Null

(***************************************************************************)
(* The types.  Keys(group, name) are the fields of a constructor in        *)
(* declaration order, Validates(group, name, key, v) is the validator of   *)
(* one field.                                                              *)
(***************************************************************************)
StateKeys ==
  <<"componentProperties", "availableDatasets", "datasetFields",
    "selectedDataset", "bindings">>

Field(key, v) == isString(v)

Prop(key, v) ==
  CASE key = "name" -> isString(v)
    [] key = "types" -> isArray(v)

Dataset(key, v) ==
  CASE key = "name" -> isString(v)
    [] key = "controllerRef" -> isObject(v)
    [] key = "fields" -> isArrayOfFields(v)

actions(name, key, v) ==
  CASE name = "InitApp" /\ key = "props" -> isArrayOfProps(v)
    [] name = "InitApp" /\ key = "datasets" -> isArrayOfDatasets(v)
    [] OTHER -> isString(v)

Init_(key, v) ==
  CASE key = "componentProperties" -> isEmptyArray(v)
    [] key = "availableDatasets" -> isEmptyArray(v)
    [] key = "datasetFields" -> isEmptyObject(v)
    [] key = "selectedDataset" -> isNil(v)
    [] key = "bindings" -> isEmptyObject(v)

DatasetSelection(key, v) ==
  CASE key = "componentProperties" -> isNonEmptyArray(v)
    [] key = "availableDatasets" -> isNonEmptyArray(v)
    [] key = "datasetFields" -> isNonEmptyObject(v)
    [] key = "selectedDataset" -> isNil(v)
    [] key = "bindings" -> isEmptyObject(v)

BindingSelection(key, v) ==
  CASE key = "componentProperties" -> isNonEmptyArray(v)
    [] key = "availableDatasets" -> isNonEmptyArray(v)
    [] key = "datasetFields" -> isNonEmptyObject(v)
    [] key = "selectedDataset" -> isNonNil(v)
    [] key = "bindings" -> TRUE

AppModes(name, key, v) ==
  CASE name = "Init" -> Init_(key, v)
    [] name = "DatasetSelection" -> DatasetSelection(key, v)
    [] name = "BindingSelection" -> BindingSelection(key, v)

actionKeys(name) ==
  CASE name = "InitApp" -> <<"props", "datasets">>
    [] name = "SelectDataset" -> <<"dataset">>
    [] name = "ClearDataset" -> <<>>
    [] name = "BindProp" -> <<"prop", "field">>
    [] name = "ClearProp" -> <<"prop">>

Keys(group, name) ==
  CASE group = "Field" -> <<"name", "type">>
    [] group = "Prop" -> <<"name", "types">>
    [] group = "Dataset" -> <<"name", "controllerRef", "fields">>
    [] group = "actions" -> actionKeys(name)
    [] group = "AppModes" -> StateKeys

Validates(group, name, key, v) ==
  CASE group = "Field" -> Field(key, v)
    [] group = "Prop" -> Prop(key, v)
    [] group = "Dataset" -> Dataset(key, v)
    [] group = "actions" -> actions(name, key, v)
    [] group = "AppModes" -> AppModes(name, key, v)

Range(s) == {s[i] : i \in 1..Len(s)}

\* group[name + 'Of'](obj): read the declared keys off obj, validate each
\* value, build the tagged value; any rejection is a TypeError
TypeOf(group, name, obj) ==
  IF Keys(group, name) # <<>> /\ ~HasKeys(obj) THEN Throw("TypeError")
  ELSE LET keys == Range(Keys(group, name))
           args == [k \in keys |-> Get(obj, k)]
       IN IF \A k \in keys : Validates(group, name, k, args[k])
          THEN Return(Adt(group, name, args))
          ELSE Throw("TypeError")

(***************************************************************************)
(* Sample values (the script's own, plus values a constructor must reject) *)
(***************************************************************************)
prop ==
  TypeOf("Prop", "Prop",
         Obj([name |-> Str("value"),
              types |-> Arr(<<Str("Text"), Str("Number")>>)])).value

titleField ==
  TypeOf("Field", "Field", Obj([name |-> Str("title"), type |-> Str("Text")])).value
priceField ==
  TypeOf("Field", "Field", Obj([name |-> Str("price"), type |-> Str("Number")])).value

\* a plain object lacking type, and one that only looks like a Field
plainField == Obj([name |-> Str("title")])
fieldLookalike == Obj([name |-> Str("title"), type |-> Str("Text")])

controllerRef == Obj([type |-> Str("something"), id |-> Str("somesuch")])

\* the datasets the reducers are exercised with, each built by DatasetOf:
\* the script's Catalog, a second dataset of the same name with other
\* fields, and one whose name is the key "__proto__"
DatasetSamples ==
  {<<"Catalog", Arr(<<titleField, priceField>>)>>,
   <<"Catalog", Arr(<<>>)>>,
   <<"__proto__", Arr(<<titleField, priceField>>)>>}

Datasets ==
  {TypeOf("Dataset", "Dataset",
          Obj([name |-> Str(d[1]), controllerRef |-> controllerRef,
               fields |-> d[2]])).value : d \in DatasetSamples}

plainDataset ==
  Obj([name |-> Str("Catalog"), controllerRef |-> controllerRef, fields |-> Arr(<<>>)])

DatasetNameOptions == {"", "Catalog", "Purchases"}

\* arguments handed to the action constructors, valid and invalid
InitAppArgs ==
  {Obj([props |-> Arr(p), datasets |-> Arr(d)]) :
     p \in SeqsUpTo({prop, plainField}, MaxProps),
     d \in SeqsUpTo(Datasets \cup {plainDataset}, MaxDatasets)}
SelectDatasetArgs ==
  {Obj([dataset |-> Str(n)]) : n \in DatasetNameOptions} \cup {Obj([dataset |-> Null])}
BindPropArgs ==
  {Obj([prop |-> Str("value"), field |-> Str("title")]), Obj([prop |-> Str("value")])}
ClearPropArgs == {Obj([prop |-> Str("value")]), Obj(NoProps)}

Constructed(name, args) ==
  {r.value : r \in {c \in {TypeOf("actions", name, a) : a \in args} : c.kind = "return"}}

\* every action value the constructors let through
Actions ==
  Constructed("InitApp", InitAppArgs)
    \cup Constructed("SelectDataset", SelectDatasetArgs)
    \cup Constructed("ClearDataset", {Obj(NoProps)})
    \cup Constructed("BindProp", BindPropArgs)
    \cup Constructed("ClearProp", ClearPropArgs)

initialState ==
  Obj([componentProperties |-> Arr(<<>>),
       availableDatasets |-> Arr(<<>>),
       datasetFields |-> Obj(NoProps),
       selectedDataset |-> Null,
       bindings |-> Obj(NoProps)])

(***************************************************************************)
(* Object.assign({}, ...sources) on own enumerable properties.  Assigning  *)
(* the key "__proto__" to a plain object runs the inherited setter: it     *)
(* replaces the target's prototype and creates no own property.            *)
(***************************************************************************)
Assign(target, source) ==
  [k \in DOMAIN target \cup (DOMAIN source \ {"__proto__"}) |->
     IF k \in DOMAIN source THEN source[k] ELSE target[k]]

ObjectAssign(first, second) == Obj(Assign(Assign(NoProps, first), second))

\* datasets.map(({ name }) => name)
namesOf(datasets) ==
  Arr([i \in 1..Len(datasets.items) |-> datasets.items[i].props.name])

\* the reduce with the operands of Object.assign swapped: the first dataset
\* of a name wins
RECURSIVE fieldsByNameFirstWins(_, _)
fieldsByNameFirstWins(datasets, n) ==
  IF n = 0 THEN Obj(NoProps)
  ELSE LET acc == fieldsByNameFirstWins(datasets, n - 1)
           value == datasets.items[n]
       IN ObjectAssign((value.props.name.value :> value.props.fields), acc.props)

\* datasets.reduce((acc, value) =>
\*   Object.assign({}, acc, { [value.name]: value.fields }), {}), after n steps
RECURSIVE fieldsByName(_, _)
fieldsByName(datasets, n) ==
  IF n = 0 THEN Obj(NoProps)
  ELSE LET acc == fieldsByName(datasets, n - 1)
           value == datasets.items[n]
       IN ObjectAssign(acc.props, (value.props.name.value :> value.props.fields))

\* the InitApp branch shared by both reducers
initApp(st, props, datasets) ==
  ObjectAssign(OwnProps(st),
               [componentProperties |-> props,
                availableDatasets |-> namesOf(datasets),
                datasetFields |-> fieldsByName(datasets, Len(datasets.items))])

\* SelectDataset that also narrows availableDatasets to the selection
selectDatasetNarrowing(st, dataset) ==
  ObjectAssign(OwnProps(st),
               [selectedDataset |-> dataset, availableDatasets |-> Arr(<<dataset>>)])

\* SelectDataset that keeps a selection already made
selectDatasetOnce(st, dataset) ==
  IF Get(st, "selectedDataset") \in {Null, Undefined}
  THEN ObjectAssign(OwnProps(st), [selectedDataset |-> dataset])
  ELSE ObjectAssign(OwnProps(st), NoProps)

\* the SelectDataset branch shared by both reducers
selectDataset(st, dataset) ==
  ObjectAssign(OwnProps(st), [selectedDataset |-> dataset])

patternMatchingReducder(st, action) ==
  IF ~isPrototypeOf("actions", action) THEN Throw("TypeError")
  ELSE CASE action.name = "InitApp" ->
              Return(initApp(st, action.props.props, action.props.datasets))
         [] action.name = "SelectDataset" ->
              Return(selectDataset(st, action.props.dataset))
         [] OTHER -> Return(Undefined)

(***************************************************************************)
(* Conversions                                                             *)
(***************************************************************************)
\* Object.keys(AppModes).filter(key => key.endsWith('Of')), evaluated when
\* appModeOf runs: by then appModeOf and stateOf are keys of AppModes too
availableModes ==
  <<"InitOf", "DatasetSelectionOf", "BindingSelectionOf", "appModeOf", "stateOf">>

\* a function value
Function == [type |-> "function"]

\* the enumerable properties, own and inherited, that pickBy visits: a value
\* of a union type carries its fields, _keys and _name, and inherits case and
\* caseOn from the prototype of its type, which for AppModes holds reduce too
keysIn(v) ==
  IF v.type = "adt"
  THEN LET keys == Keys(v.group, v.name)
           inherited == {"case", "caseOn"}
                          \cup (IF v.group = "AppModes" THEN {"reduce"} ELSE {})
       IN [k \in DOMAIN v.props \cup {"_keys", "_name"} \cup inherited |->
             CASE k \in DOMAIN v.props -> v.props[k]
               [] k = "_keys" -> Arr([i \in 1..Len(keys) |-> Str(keys[i])])
               [] k = "_name" -> Str(v.name)
               [] OTHER -> Function]
  ELSE OwnProps(v)

\* stateOf that forgets bindings in its list of keys
stateOfFour(mode) ==
  Obj([k \in (Range(StateKeys) \ {"bindings"}) \cap DOMAIN keysIn(mode) |->
         keysIn(mode)[k]])

\* stateOf whose predicate lets every key through
stateOfUnfiltered(mode) == Obj(keysIn(mode))

\* pickBy_(mode, (value, key) => [...five keys].includes(key))
stateOf(mode) ==
  Obj([k \in Range(StateKeys) \cap DOMAIN keysIn(mode) |-> keysIn(mode)[k]])

\* acc.concat(mappedValue)
concat(acc, v) == IF v.type = "array" THEN acc \o v.items ELSE Append(acc, v)

(***************************************************************************)
(* appModeOf(state) as activation number depth, on a stack that holds      *)
(* limit nested activations: a call that needs activation limit + 1 throws *)
(* RangeError.  tryModeCreator is the try/catch closure handed to          *)
(* firstMapped, firstMapped(st, depth, limit, i, acc) the rest of the      *)
(* reduce from candidate i on.                                             *)
(***************************************************************************)
RECURSIVE appModeOfAt(_, _, _)
tryModeCreator(modeCreator, st, depth, limit) ==
  IF depth + 1 > limit THEN False
  ELSE LET r == CASE modeCreator = "InitOf" -> TypeOf("AppModes", "Init", st)
                  [] modeCreator = "DatasetSelectionOf" ->
                       TypeOf("AppModes", "DatasetSelection", st)
                  [] modeCreator = "BindingSelectionOf" ->
                       TypeOf("AppModes", "BindingSelection", st)
                  [] modeCreator = "appModeOf" -> appModeOfAt(st, depth + 1, limit)
                  [] modeCreator = "stateOf" -> Return(stateOf(st))
       IN IF r.kind = "return" THEN r.value ELSE False

\* firstMapped without the test of mappedValue: whatever the first
\* candidate maps to is kept
RECURSIVE firstMappedUntested(_, _, _, _, _)
firstMappedUntested(st, depth, limit, i, acc) ==
  IF i > Len(availableModes) THEN acc
  ELSE IF Len(acc) = 0
       THEN firstMappedUntested(st, depth, limit, i + 1,
              concat(acc, tryModeCreator(availableModes[i], st, depth, limit)))
       ELSE firstMappedUntested(st, depth, limit, i + 1, acc)

RECURSIVE firstMapped(_, _, _, _, _)
firstMapped(st, depth, limit, i, acc) ==
  IF i > Len(availableModes) THEN acc
  ELSE IF Len(acc) = 0
       THEN LET mappedValue == tryModeCreator(availableModes[i], st, depth, limit)
            IN firstMapped(st, depth, limit, i + 1,
                           IF Truthy(mappedValue) THEN concat(acc, mappedValue) ELSE acc)
       ELSE firstMapped(st, depth, limit, i + 1, acc)

\* the candidates firstMapped hands to fn, in order: those it meets while
\* acc is still empty
RECURSIVE probed(_, _, _, _, _)
probed(st, depth, limit, i, acc) ==
  IF i > Len(availableModes) THEN <<>>
  ELSE IF Len(acc) = 0
       THEN LET mappedValue == tryModeCreator(availableModes[i], st, depth, limit)
            IN <<availableModes[i]>>
                 \o probed(st, depth, limit, i + 1,
                           IF Truthy(mappedValue) THEN concat(acc, mappedValue) ELSE acc)
       ELSE probed(st, depth, limit, i + 1, acc)

appModeOfAt(st, depth, limit) ==
  LET firstMatchingMode == firstMapped(st, depth, limit, 1, <<>>)
  IN IF Len(firstMatchingMode) = 0
     THEN Throw("invalid state")
     ELSE Return(firstMatchingMode[1])

\* AppModes.appModeOf called from the script, where the stack still holds
\* limit activations
appModeOf(st, limit) == appModeOfAt(st, 1, limit)

(***************************************************************************)
(* Mode reducers and the reducer method                                   *)
(***************************************************************************)
\* initModeReducer whose wildcard hands the state back instead of throwing
initModeReducerLenient(st, action) ==
  IF ~isPrototypeOf("actions", action) THEN Throw("TypeError")
  ELSE IF action.name = "InitApp"
       THEN Return(initApp(st, action.props.props, action.props.datasets))
       ELSE Return(st)

initModeReducer(st, action) ==
  IF ~isPrototypeOf("actions", action) THEN Throw("TypeError")
  ELSE IF action.name = "InitApp"
       THEN Return(initApp(st, action.props.props, action.props.datasets))
       ELSE Throw("bad state for action")

selectDatasetReducer(st, action) ==
  IF ~isPrototypeOf("actions", action) THEN Throw("TypeError")
  ELSE IF action.name = "SelectDataset"
       THEN Return(selectDataset(st, action.props.dataset))
       ELSE Throw("bad state for action")

\* reduce that ignores the mode and handles the action as the unscoped
\* reducer does
reduceAnyMode(mode, action) == patternMatchingReducder(stateOf(mode), action)

\* AppModes.prototype.reduce, with mode as this
reduce(mode, action) ==
  LET st == stateOf(mode)
  IN CASE mode.name = "Init" -> initModeReducer(st, action)
       [] mode.name = "DatasetSelection" -> selectDatasetReducer(st, action)
       [] mode.name = "BindingSelection" -> Return(Undefined)

\* a value that is no AppModes value has no reduce method
reducer(st, action, limit) ==
  LET mode == appModeOf(st, limit)
  IN IF mode.kind = "throw" THEN mode
     ELSE IF isPrototypeOf("AppModes", mode.value)
          THEN reduce(mode.value, action)
          ELSE Throw("TypeError")

(***************************************************************************)
(* The script as a state machine: the caller holds a state, dispatches an  *)
(* action to its reducer, and feeds a returned value to the next call.     *)
(***************************************************************************)
NoCall == [fn |-> "none"]
Reducers == {"reducer", "patternMatchingReducder"}

\* how many nested appModeOf activations the stack holds when the script,
\* at module top level, calls reducer: at least the call and its callees
StackLimits == 2..MaxStack

Init ==
  /\ state = initialState
  /\ reduceWith \in Reducers
  /\ call = NoCall
  /\ lastAccepted = Undefined
  /\ accepted = {}

\* reducer(state, action) or patternMatchingReducder(state, action)
Dispatch(action) ==
  /\ call = NoCall
  /\ \E limit \in StackLimits :
       call' = [fn |-> reduceWith, input |-> state, action |-> action,
                outcome |-> IF reduceWith = "reducer"
                            THEN reducer(state, action, limit)
                            ELSE patternMatchingReducder(state, action)]
  /\ UNCHANGED <<state, reduceWith, lastAccepted, accepted>>

\* AppModes.appModeOf(state) called on its own, with the candidates it
\* invoked
Classify ==
  /\ call = NoCall
  /\ \E limit \in StackLimits :
       call' = [fn |-> "appModeOf", input |-> state,
                probed |-> probed(state, 1, limit, 1, <<>>),
                outcome |-> appModeOf(state, limit)]
  /\ UNCHANGED <<state, reduceWith, lastAccepted, accepted>>

\* AppModes.stateOf(AppModes.appModeOf(state)): the state read back off its
\* classification
StateOfAppMode ==
  /\ call = NoCall
  /\ \E limit \in StackLimits :
       LET mode == appModeOf(state, limit)
       IN call' = [fn |-> "stateOf", input |-> state,
                   outcome |-> IF mode.kind = "return"
                               THEN Return(stateOf(mode.value))
                               ELSE mode]
  /\ UNCHANGED <<state, reduceWith, lastAccepted, accepted>>

\* the call returned: its value is the state of the next call
Returned ==
  /\ call.fn \in Reducers
  /\ call.outcome.kind = "return"
  /\ state' = call.outcome.value
  /\ lastAccepted' = call.action
  /\ accepted' = IF call.fn = "reducer"
                  THEN accepted \cup {call.action.name}
                  ELSE accepted
  /\ call' = NoCall
  /\ UNCHANGED reduceWith

\* the call threw, or was a classification: the caller keeps its state
Dropped ==
  /\ call # NoCall
  /\ call.fn \in Reducers => call.outcome.kind = "throw"
  /\ call' = NoCall
  /\ UNCHANGED <<state, reduceWith, lastAccepted, accepted>>

Next ==
  \/ \E action \in Actions : Dispatch(action)
  \/ Classify
  \/ StateOfAppMode
  \/ Returned
  \/ Dropped

Spec == Init /\ [][Next]_vars

(***************************************************************************)
(* The mode-scoped reducer started from any state: each of the five keys   *)
(* absent, empty or populated, with or without a foreign key, and the      *)
(* values undefined and null.                                              *)
(***************************************************************************)
Restrict(f, K) == [k \in K |-> f[k]]

AnyStates ==
  {Obj(Restrict(full, K)) :
     full \in [componentProperties : {Arr(<<>>), Arr(<<prop>>)},
               availableDatasets : {Arr(<<>>), Arr(<<Str("Catalog")>>)},
               datasetFields : {Obj(NoProps), Obj([Catalog |-> Arr(<<titleField>>)])},
               selectedDataset : {Null, Str(""), Str("Catalog")},
               bindings : {Obj(NoProps), Obj([value |-> Str("title")])},
               version : {Str("1")}],
     K \in SUBSET (Range(StateKeys) \cup {"version"})}
    \cup {Undefined, Null}

InitAny ==
  /\ state \in AnyStates
  /\ reduceWith = "reducer"
  /\ call = NoCall
  /\ lastAccepted = Undefined
  /\ accepted = {}

SpecAny == InitAny /\ [][Next]_vars

(***************************************************************************)
(* The constructors on their own: each call hands one candidate object to  *)
(* a constructor and records what came of it.                              *)
(***************************************************************************)
FieldArgs ==
  {Obj(Restrict([name |-> n, type |-> t], K)) :
     n \in {Str("title"), Null}, t \in {Str("Text"), Arr(<<>>)},
     K \in SUBSET {"name", "type"}}
PropArgs ==
  {Obj(Restrict([name |-> n, types |-> t], K)) :
     n \in {Str("value"), Null}, t \in {Arr(<<Str("Text")>>), Str("Text")},
     K \in SUBSET {"name", "types"}}
DatasetArgs ==
  {Obj([name |-> n, controllerRef |-> c, fields |-> f]) :
     n \in {Str("Catalog"), Undefined},
     c \in {controllerRef, Undefined},
     f \in {Arr(e) : e \in SeqsUpTo({titleField, priceField, plainField,
                                     fieldLookalike, prop}, MaxFields)}
             \cup {Undefined, Str("title")}}

\* the record of group[name + 'Of'](obj) having run
Built(group, name, obj) ==
  [fn |-> "Of", group |-> group, name |-> name, input |-> obj,
   outcome |-> TypeOf(group, name, obj)]

FieldOf ==
  /\ call = NoCall
  /\ \E obj \in FieldArgs \cup {Undefined} : call' = Built("Field", "Field", obj)
  /\ UNCHANGED <<state, reduceWith, lastAccepted, accepted>>

PropOf ==
  /\ call = NoCall
  /\ \E obj \in PropArgs : call' = Built("Prop", "Prop", obj)
  /\ UNCHANGED <<state, reduceWith, lastAccepted, accepted>>

DatasetOf ==
  /\ call = NoCall
  /\ \E obj \in DatasetArgs : call' = Built("Dataset", "Dataset", obj)
  /\ UNCHANGED <<state, reduceWith, lastAccepted, accepted>>

InitAppOf ==
  /\ call = NoCall
  /\ \E obj \in InitAppArgs : call' = Built("actions", "InitApp", obj)
  /\ UNCHANGED <<state, reduceWith, lastAccepted, accepted>>

SelectDatasetOf ==
  /\ call = NoCall
  /\ \E obj \in SelectDatasetArgs : call' = Built("actions", "SelectDataset", obj)
  /\ UNCHANGED <<state, reduceWith, lastAccepted, accepted>>

ClearDatasetOf ==
  /\ call = NoCall
  /\ \E obj \in {Obj(NoProps)} : call' = Built("actions", "ClearDataset", obj)
  /\ UNCHANGED <<state, reduceWith, lastAccepted, accepted>>

BindPropOf ==
  /\ call = NoCall
  /\ \E obj \in BindPropArgs : call' = Built("actions", "BindProp", obj)
  /\ UNCHANGED <<state, reduceWith, lastAccepted, accepted>>

ClearPropOf ==
  /\ call = NoCall
  /\ \E obj \in ClearPropArgs : call' = Built("actions", "ClearProp", obj)
  /\ UNCHANGED <<state, reduceWith, lastAccepted, accepted>>

NextOf ==
  \/ FieldOf
  \/ PropOf
  \/ DatasetOf
  \/ InitAppOf
  \/ SelectDatasetOf
  \/ ClearDatasetOf
  \/ BindPropOf
  \/ ClearPropOf
  \/ Dropped

SpecOf == Init /\ [][NextOf]_vars

(***************************************************************************)
(* Vocabulary of the properties                                            *)
(***************************************************************************)
ModeNames == <<"Init", "DatasetSelection", "BindingSelection">>

\* the mode predicate of AppModes[name]: every field validator accepts
ModeHolds(name, v) ==
  /\ HasKeys(v)
  /\ \A k \in Range(StateKeys) : AppModes(name, k, Get(v, k))

ModesOf(v) == {m \in Range(ModeNames) : ModeHolds(m, v)}

ReducerCalled == call.fn = "reducer"
ReducerReturned == ReducerCalled /\ call.outcome.kind = "return"
Dispatched(name) == call.fn \in Reducers /\ call.action.name = name

\* the arrays an InitApp action carries
PropsOf(action) == action.props.props
DatasetsOf(action) == action.props.datasets.items
NameAt(action, i) == DatasetsOf(action)[i].props.name.value
FieldsAt(action, i) == DatasetsOf(action)[i].props.fields

(***************************************************************************)
(* C1: every state a successful reducer call returns satisfies exactly one *)
(* of the mode predicates Init, DatasetSelection, BindingSelection.        *)
(***************************************************************************)
C1_ReturnedStateHasOneMode ==
  ReducerReturned => Cardinality(ModesOf(call.outcome.value)) = 1

(***************************************************************************)
(* C2: reducing a state in Init mode with any constructed InitApp action   *)
(* (empty arrays included) returns a state in DatasetSelection mode.       *)
(***************************************************************************)
C2_InitAppYieldsDatasetSelection ==
  (ReducerCalled /\ ModeHolds("Init", call.input) /\ Dispatched("InitApp"))
    => /\ call.outcome.kind = "return"
       /\ ModeHolds("DatasetSelection", call.outcome.value)

(***************************************************************************)
(* C3: reducing an Init state with InitApp(props, datasets) returns        *)
(* componentProperties = props, availableDatasets = the datasets' names in *)
(* input order, and datasetFields mapping the name of every provided       *)
(* dataset d to d.fields.                                                  *)
(***************************************************************************)
InitAppAccepted ==
  /\ ReducerReturned
  /\ ModeHolds("Init", call.input)
  /\ Dispatched("InitApp")

C3_PropsAndNames ==
  LET a == call.action
      v == call.outcome.value
  IN /\ v.type = "object"
     /\ Get(v, "componentProperties") = PropsOf(a)
     /\ Get(v, "availableDatasets").type = "array"
     /\ Get(v, "availableDatasets").items =
          [i \in 1..Len(DatasetsOf(a)) |-> Str(NameAt(a, i))]

C3_EveryDatasetMapped ==
  InitAppAccepted =>
    /\ C3_PropsAndNames
    /\ \A i \in 1..Len(DatasetsOf(call.action)) :
         LET fields == Get(call.outcome.value, "datasetFields")
         IN /\ NameAt(call.action, i) \in DOMAIN OwnProps(fields)
            /\ OwnProps(fields)[NameAt(call.action, i)] = FieldsAt(call.action, i)

(***************************************************************************)
(* C3 as amended: datasetFields has one key per dataset name other than    *)
(* "__proto__", and maps it to the fields of the last dataset, in input    *)
(* order, that bears the name.                                             *)
(***************************************************************************)
LastNamed(action, n) ==
  CHOOSE i \in 1..Len(DatasetsOf(action)) :
    /\ NameAt(action, i) = n
    /\ \A j \in (i + 1)..Len(DatasetsOf(action)) : NameAt(action, j) # n

C3_LastDatasetOfEachNameMapped ==
  InitAppAccepted =>
    /\ C3_PropsAndNames
    /\ LET a == call.action
           fields == Get(call.outcome.value, "datasetFields")
           names == {NameAt(a, i) : i \in 1..Len(DatasetsOf(a))}
       IN /\ fields.type = "object"
          /\ DOMAIN fields.props = names \ {"__proto__"}
          /\ \A n \in DOMAIN fields.props :
               fields.props[n] = FieldsAt(a, LastNamed(a, n))

\* two datasets of one name and different fields were handed in
C3_SharedNameReduced ==
  /\ InitAppAccepted
  /\ \E i, j \in 1..Len(DatasetsOf(call.action)) :
       /\ i < j
       /\ NameAt(call.action, i) = NameAt(call.action, j)
       /\ FieldsAt(call.action, i) # FieldsAt(call.action, j)

(***************************************************************************)
(* C4: reducing a state in DatasetSelection mode with SelectDataset(name), *)
(* for any string name, returns a state whose selectedDataset is name and  *)
(* which is in BindingSelection mode.                                      *)
(***************************************************************************)
SelectDatasetTried ==
  /\ ReducerCalled
  /\ ModeHolds("DatasetSelection", call.input)
  /\ Dispatched("SelectDataset")

C4_SelectDatasetYieldsBindingSelection ==
  SelectDatasetTried =>
    /\ call.outcome.kind = "return"
    /\ Get(call.outcome.value, "selectedDataset") = call.action.props.dataset
    /\ ModeHolds("BindingSelection", call.outcome.value)

\* the empty string, a name no dataset bears, was selected
C4_EmptyNameSelected ==
  /\ SelectDatasetTried
  /\ call.action.props.dataset = Str("")
  /\ Str("") \notin Range(Get(call.input, "availableDatasets").items)
  /\ call.outcome.kind = "return"

(***************************************************************************)
(* C5: in Init mode every action other than InitApp, and in                *)
(* DatasetSelection mode every action other than SelectDataset, makes      *)
(* reducer throw 'bad state for action' and return no state.               *)
(***************************************************************************)
C5_IllegalActionThrows ==
  /\ (ReducerCalled /\ ModeHolds("Init", call.input) /\ ~Dispatched("InitApp"))
       => call.outcome = Throw("bad state for action")
  /\ (ReducerCalled /\ ModeHolds("DatasetSelection", call.input)
        /\ ~Dispatched("SelectDataset"))
       => call.outcome = Throw("bad state for action")

\* SelectDataset was dispatched against the empty initial state and thrown out
C5_SelectDatasetBeforeInit ==
  /\ ReducerCalled
  /\ call.input = initialState
  /\ Dispatched("SelectDataset")
  /\ call.outcome.kind = "throw"

(***************************************************************************)
(* C6: reducing a state in BindingSelection mode with any action is a      *)
(* no-op: reducer returns a state equal to its input in all five fields.   *)
(***************************************************************************)
BindingSelectionReduced == ReducerCalled /\ ModeHolds("BindingSelection", call.input)

C6_BindingSelectionIsNoOp ==
  BindingSelectionReduced =>
    /\ call.outcome.kind = "return"
    /\ call.outcome.value.type = "object"
    /\ \A k \in Range(StateKeys) : Get(call.outcome.value, k) = Get(call.input, k)

(***************************************************************************)
(* C7: on a state no mode predicate holds of, AppModes.appModeOf throws    *)
(* 'invalid state' and returns nothing, and so does reducer, whatever the  *)
(* action.                                                                 *)
(***************************************************************************)
Unclassifiable ==
  /\ call.fn \in {"reducer", "appModeOf"}
  /\ ModesOf(call.input) = {}

C7_NoModeThrowsInvalidState ==
  Unclassifiable => call.outcome = Throw("invalid state")

(***************************************************************************)
(* C8: on a state some mode predicate holds of, AppModes.appModeOf returns *)
(* the first mode, in the order Init, DatasetSelection, BindingSelection,  *)
(* whose predicate holds, wrapping the five fields of the state; a         *)
(* constructor that throws counts as no match; the empty state is Init.    *)
(***************************************************************************)
Classified == call.fn = "appModeOf" /\ ModesOf(call.input) # {}

FirstMode(v) ==
  ModeNames[CHOOSE i \in 1..Len(ModeNames) :
              /\ ModeHolds(ModeNames[i], v)
              /\ \A j \in 1..(i - 1) : ~ModeHolds(ModeNames[j], v)]

C8_FirstMatchingModeReturned ==
  /\ Classified =>
       /\ call.outcome.kind = "return"
       /\ isPrototypeOf("AppModes", call.outcome.value)
       /\ call.outcome.value.name = FirstMode(call.input)
       /\ \A k \in Range(StateKeys) :
            call.outcome.value.props[k] = Get(call.input, k)
  /\ (call.fn = "appModeOf" /\ call.input = initialState)
       => call.outcome.value.name = "Init"

\* a state without a bindings key, on which InitOf and DatasetSelectionOf
\* throw inside Object.keys, was classified as BindingSelection
C8_ThrowingConstructorsSkipped ==
  /\ Classified
  /\ "bindings" \notin DOMAIN OwnProps(call.input)
  /\ call.outcome.kind = "return"
  /\ call.outcome.value.name = "BindingSelection"

(***************************************************************************)
(* C9: from a DatasetSelection state, reduce with SelectDataset(a) and     *)
(* then, on the resulting state, reduce with SelectDataset(b), a # b,      *)
(* yields a state whose selectedDataset is b.                              *)
(***************************************************************************)
\* the state before the last accepted SelectDataset, which set nothing but
\* selectedDataset
BeforeSelect(v) == ObjectAssign(OwnProps(v), [selectedDataset |-> Null])

SecondSelect(fn) ==
  /\ call.fn = fn
  /\ lastAccepted # Undefined
  /\ lastAccepted.name = "SelectDataset"
  /\ call.input.type = "object"
  /\ Get(call.input, "selectedDataset") = lastAccepted.props.dataset
  /\ ModeHolds("DatasetSelection", BeforeSelect(call.input))
  /\ call.action.name = "SelectDataset"
  /\ call.action.props.dataset # lastAccepted.props.dataset

LastWriteWins ==
  /\ call.outcome.kind = "return"
  /\ Get(call.outcome.value, "selectedDataset") = call.action.props.dataset

C9_LastWriteWins == SecondSelect("reducer") => LastWriteWins

(***************************************************************************)
(* C9 as amended: the second SelectDataset overwrites selectedDataset      *)
(* under patternMatchingReducder; under reducer it meets a state in        *)
(* BindingSelection mode and returns undefined, overwriting nothing.       *)
(***************************************************************************)
C9_LastWriteWinsUnscoped ==
  /\ SecondSelect("patternMatchingReducder") => LastWriteWins
  /\ SecondSelect("reducer") => call.outcome = Return(Undefined)

C9_SecondSelectReturned ==
  SecondSelect("patternMatchingReducder") /\ call.outcome.kind = "return"

(***************************************************************************)
(* C10: Dataset.DatasetOf succeeds only when every element of fields is a  *)
(* value built by the Field constructor; a fields array with any other     *)
(* element is rejected, so the fields of every constructed Dataset all     *)
(* pass Field validation.                                                  *)
(***************************************************************************)
\* the values Field.FieldOf builds
FieldValues ==
  {Adt("Field", "Field", [name |-> Str(n), type |-> Str(t)]) :
     n \in {"title", "price"}, t \in {"Text", "Number"}}

DatasetOfCalled == call.fn = "Of" /\ call.group = "Dataset"

HasForeignElement(fields) ==
  fields.type = "array" /\ \E i \in 1..Len(fields.items) : fields.items[i] \notin FieldValues

C10_DatasetFieldsAreFields ==
  DatasetOfCalled =>
    /\ HasForeignElement(Get(call.input, "fields")) => call.outcome = Throw("TypeError")
    /\ call.outcome.kind = "return" =>
         /\ call.outcome.value.props.fields = Get(call.input, "fields")
         /\ call.outcome.value.props.fields.type = "array"
         /\ Range(call.outcome.value.props.fields.items) \subseteq FieldValues

\* a fields array holding a plain object that only lacks the Field prototype
\* was rejected
C10_LookalikeRejected ==
  /\ DatasetOfCalled
  /\ Get(call.input, "name") = Str("Catalog")
  /\ Get(call.input, "controllerRef") = controllerRef
  /\ Get(call.input, "fields") = Arr(<<titleField, fieldLookalike>>)
  /\ call.outcome.kind = "throw"

(***************************************************************************)
(* C11: a reducer call leaves the state it was handed unchanged, whether   *)
(* it returns or throws, and a successful step changes only the fields its *)
(* action names: InitApp in Init mode returns selectedDataset and bindings *)
(* equal to the input's, SelectDataset in DatasetSelection mode returns    *)
(* componentProperties, availableDatasets, datasetFields and bindings      *)
(* equal to the input's.                                                   *)
(***************************************************************************)
SameFields(a, b, keys) == \A k \in keys : Get(a, k) = Get(b, k)

LegalInitApp ==
  ReducerReturned /\ ModeHolds("Init", call.input) /\ call.action.name = "InitApp"
LegalSelectDataset ==
  /\ ReducerReturned
  /\ ModeHolds("DatasetSelection", call.input)
  /\ call.action.name = "SelectDataset"

ModeCreators == <<"InitOf", "DatasetSelectionOf", "BindingSelectionOf">>

C12_OnlyModeConstructorsProbed ==
  call.fn = "appModeOf" =>
    /\ Len(call.probed) <= Len(ModeCreators)
    /\ call.probed = SubSeq(ModeCreators, 1, Len(call.probed))
    /\ call.outcome.kind = "return" => isPrototypeOf("AppModes", call.outcome.value)

(***************************************************************************)
(* C13: in every chain of reducer calls from the empty initial state, each *)
(* fed the last returned state: no SelectDataset is accepted before an     *)
(* InitApp was, no BindProp, ClearProp or ClearDataset is accepted before  *)
(* a SelectDataset was, and the mode of the state never moves backward in  *)
(* the order Init, DatasetSelection, BindingSelection.  accepted holds the *)
(* names of the actions the chain accepted so far, so an action that joins *)
(* it finds its predecessors there.                                        *)
(***************************************************************************)
Rank(name) == CHOOSE i \in 1..Len(ModeNames) : ModeNames[i] = name

C13_ModesOnlyAdvance ==
  reduceWith = "reducer" =>
    /\ "SelectDataset" \in accepted => "InitApp" \in accepted
    /\ accepted \cap {"BindProp", "ClearProp", "ClearDataset"} # {} =>
         "SelectDataset" \in accepted
    /\ ReducerReturned =>
         /\ call.input = state
         /\ \A m \in ModesOf(call.input), n \in ModesOf(call.outcome.value) :
              Rank(m) <= Rank(n)
         /\ call.action.name = "SelectDataset" => "InitApp" \in accepted
         /\ call.action.name \in {"BindProp", "ClearProp", "ClearDataset"} =>
              "SelectDataset" \in accepted

\* the chain accepted InitApp, SelectDataset and BindProp
C13_BindPropAccepted ==
  /\ reduceWith = "reducer"
  /\ {"InitApp", "SelectDataset", "BindProp"} \subseteq accepted

(***************************************************************************)
(* C14: for every state value, whether or not the reducer can produce it,  *)
(* at most one of the mode predicates Init, DatasetSelection and           *)
(* BindingSelection holds, so at most one of the three mode constructors   *)
(* accepts the state a classification is handed.                           *)
(***************************************************************************)
Accepting(v) ==
  {i \in 1..Len(ModeNames) : TypeOf("AppModes", ModeNames[i], v).kind = "return"}

C14_ModesDisjoint ==
  /\ Cardinality(ModesOf(state)) <= 1
  /\ Cardinality(Accepting(state)) <= 1
  /\ call.fn = "appModeOf" => Cardinality(Accepting(call.input)) <= 1

\* a state no reducer call returns, with a binding and a foreign key, is in
\* BindingSelection mode only
C14_BoundStateClassified ==
  /\ call.fn = "appModeOf"
  /\ Get(call.input, "bindings") = Obj([value |-> Str("title")])
  /\ Get(call.input, "version") = Str("1")
  /\ ModesOf(call.input) = {"BindingSelection"}

(***************************************************************************)
(* C15: on every legal pair of mode and action, an Init state with an      *)
(* InitApp action or a DatasetSelection state with a SelectDataset action, *)
(* reducer and patternMatchingReducder both return, and the states they    *)
(* return are equal in all five fields.                                    *)
(***************************************************************************)
LegalPair ==
  /\ ReducerCalled
  /\ \/ ModeHolds("Init", call.input) /\ call.action.name = "InitApp"
     \/ ModeHolds("DatasetSelection", call.input) /\ call.action.name = "SelectDataset"

Unscoped == patternMatchingReducder(call.input, call.action)

C15_ReducersAgree ==
  LegalPair =>
    /\ call.outcome.kind = "return"
    /\ Unscoped.kind = "return"
    /\ SameFields(call.outcome.value, Unscoped.value, Range(StateKeys))

\* InitApp with datasets reduced an Init state that holds a foreign key: the
\* unscoped reducer keeps the key, the mode-scoped one drops it
C15_ForeignKeyDropped ==
  /\ LegalPair
  /\ call.action.name = "InitApp"
  /\ Len(DatasetsOf(call.action)) > 0
  /\ Get(Unscoped.value, "version") = Str("1")
  /\ Get(call.outcome.value, "version") = Undefined

(***************************************************************************)
(* C16: in every state reached from the empty initial state by successful  *)
(* reducer calls, the keys of datasetFields are the names that occur in    *)
(* availableDatasets, every value of datasetFields is an array of Field    *)
(* values, and bindings is empty.                                          *)
(***************************************************************************)
NamesIn(st) ==
  {Get(st, "availableDatasets").items[i] :
     i \in 1..Len(Get(st, "availableDatasets").items)}

C16_DatasetFieldsMatchNames ==
  (reduceWith = "reducer" /\ call = NoCall) =>
    /\ state.type = "object"
    /\ {Str(k) : k \in DOMAIN Get(state, "datasetFields").props} = NamesIn(state)
    /\ \A k \in DOMAIN Get(state, "datasetFields").props :
         /\ Get(state, "datasetFields").props[k].type = "array"
         /\ Range(Get(state, "datasetFields").props[k].items) \subseteq FieldValues
    /\ Get(state, "bindings") = Obj(NoProps)

(***************************************************************************)
(* C17: for every state that holds exactly the five fields and matches     *)
(* some mode, stateOf(appModeOf(state)) returns a record equal to the      *)
(* state in all five fields and holding no other field.                    *)
(***************************************************************************)
FiveFieldState(v) ==
  /\ v.type = "object"
  /\ DOMAIN v.props = Range(StateKeys)
  /\ ModesOf(v) # {}

C17_StateReadBack ==
  (call.fn = "stateOf" /\ FiveFieldState(call.input)) =>
    /\ call.outcome.kind = "return"
    /\ call.outcome.value.type = "object"
    /\ DOMAIN call.outcome.value.props = Range(StateKeys)
    /\ SameFields(call.outcome.value, call.input, Range(StateKeys))

\* a state with a selection and a binding was classified and read back
C17_BoundStateReadBack ==
  /\ call.fn = "stateOf"
  /\ FiveFieldState(call.input)
  /\ Get(call.input, "selectedDataset") = Str("Catalog")
  /\ Get(call.input, "bindings") = Obj([value |-> Str("title")])
  /\ call.outcome.kind = "return"

====
